---- MODULE Spec2Model ----
(***************************************************************************)
(* A model of bibtexparser's Splitter (src/bibtexparser/splitter.py): the  *)
(* single-pass scanner that cuts a bibtex source into blocks.              *)
(*                                                                         *)
(* Strings are TLA+ strings; offsets are Python's (0-based, end exclusive).*)
(* One action is one call of _next_mark together with the code that runs   *)
(* until the following call of _next_mark (or until split returns).        *)
(***************************************************************************)
EXTENDS Integers, Sequences, FiniteSets, TLC

VARIABLES
    bibstr,                       \* self.bibstr
    markiter,                     \* self._markiter: the matches not yet drawn
    unaccepted_mark,              \* self._unaccepted_mark
    current_line,                 \* self._current_line
    current_char_index,           \* self._current_char_index
    open_brackets,                \* self._open_brackets
    is_quote_open,                \* self._is_quote_open
    expected_next,                \* self._expected_next
    implicit_comment_start_line,  \* self._implicit_comment_start_line
    implicit_comment_start,       \* self._implicit_comment_start
    library,                      \* library.blocks, in order of add()
    pc,                           \* the _next_mark call that runs next
    m,                            \* split: the block-start mark being handled
    start_line,                   \* split: start_line of that block
    loc,                          \* locals of the running handler
    hist,                         \* history: where each block of library came from
    prev                          \* history: the run before this one, if any

vars == <<bibstr, markiter, unaccepted_mark, current_line, current_char_index,
          open_brackets, is_quote_open, expected_next,
          implicit_comment_start_line, implicit_comment_start,
          library, pc, m, start_line, loc, hist, prev>>

-----------------------------------------------------------------------------
(* Python strings                                                          *)

\* Python's None
None == [start |-> -1, end |-> -1, group |-> ""]

Min(a, b) == IF a < b THEN a ELSE b
Max(a, b) == IF a > b THEN a ELSE b

\* s[i] for 0 <= i < len(s)
Ch(s, i) == SubSeq(s, i + 1, i + 1)

\* s[a:b] for a, b >= 0
Slice(s, a, b) == SubSeq(s, a + 1, Min(b, Len(s)))

\* s.startswith(p)
StartsWith(s, p) == Len(s) >= Len(p) /\ SubSeq(s, 1, Len(p)) = p

\* char.isspace()
IsSpace(c) == c \in {" ", "\n", "\t", "\r"}

UpperChars == "ABCDEFGHIJKLMNOPQRSTUVWXYZ"
LowerChars == "abcdefghijklmnopqrstuvwxyz"
DigitChars == "0123456789"

\* the characters the regex class \w matches
IsWord(c) ==
    \/ \E i \in 1..26 : c = SubSeq(UpperChars, i, i) \/ c = SubSeq(LowerChars, i, i)
    \/ \E i \in 1..10 : c = SubSeq(DigitChars, i, i)
    \/ c = "_"

LowerCh(c) ==
    IF \E i \in 1..26 : c = SubSeq(UpperChars, i, i)
    THEN LET i == CHOOSE j \in 1..26 : c = SubSeq(UpperChars, j, j)
         IN  SubSeq(LowerChars, i, i)
    ELSE c

RECURSIVE Lower(_)
\* s.lower()
Lower(s) == IF s = "" THEN "" ELSE LowerCh(Ch(s, 0)) \o Lower(SubSeq(s, 2, Len(s)))

\* s.strip()
Strip(s) ==
    LET nonspace == {i \in 1..Len(s) : ~IsSpace(SubSeq(s, i, i))}
    IN  IF nonspace = {} THEN ""
        ELSE SubSeq(s, CHOOSE i \in nonspace : \A j \in nonspace : i <= j,
                       CHOOSE i \in nonspace : \A j \in nonspace : j <= i)

\* s.rstrip()
RStrip(s) ==
    LET nonspace == {i \in 1..Len(s) : ~IsSpace(SubSeq(s, i, i))}
    IN  IF nonspace = {} THEN ""
        ELSE SubSeq(s, 1, CHOOSE i \in nonspace : \A j \in nonspace : j <= i)

RECURSIVE Str(_)
\* str(n) for n >= 0, as the f-string formats an int
Str(n) == IF n < 10 THEN SubSeq(DigitChars, n + 1, n + 1)
          ELSE Str(n \div 10) \o SubSeq(DigitChars, (n % 10) + 1, (n % 10) + 1)

-----------------------------------------------------------------------------
(* The token regex  (?<!\\)[\{\}\",=\n]|(?<=\n)@[\w]*(?={)                 *)

RECURSIVE WordEnd(_, _)
\* the offset where the greedy [\w]* that starts at i stops
WordEnd(s, i) == IF i < Len(s) /\ IsWord(Ch(s, i)) THEN WordEnd(s, i + 1) ELSE i

\* MatchAt without the lookbehind (?<!\\)
MatchAtIgnoringEscape(s, i) ==
    IF Ch(s, i) \in {"{", "}", "\"", ",", "=", "\n"}
    THEN i + 1
    ELSE IF /\ i > 0
            /\ Ch(s, i - 1) = "\n"
            /\ Ch(s, i) = "@"
            /\ WordEnd(s, i + 1) < Len(s)
            /\ Ch(s, WordEnd(s, i + 1)) = "{"
         THEN WordEnd(s, i + 1)
         ELSE -1

\* MatchAt without the lookahead (?={)
MatchAtWithoutLookahead(s, i) ==
    IF /\ Ch(s, i) \in {"{", "}", "\"", ",", "=", "\n"}
       /\ (i = 0 \/ Ch(s, i - 1) # "\\")
    THEN i + 1
    ELSE IF i > 0 /\ Ch(s, i - 1) = "\n" /\ Ch(s, i) = "@"
         THEN WordEnd(s, i + 1)
         ELSE -1

\* MatchAt without the lookbehind (?<=\n)
MatchAtWithoutLookbehind(s, i) ==
    IF /\ Ch(s, i) \in {"{", "}", "\"", ",", "=", "\n"}
       /\ (i = 0 \/ Ch(s, i - 1) # "\\")
    THEN i + 1
    ELSE IF /\ Ch(s, i) = "@"
            /\ WordEnd(s, i + 1) < Len(s)
            /\ Ch(s, WordEnd(s, i + 1)) = "{"
         THEN WordEnd(s, i + 1)
         ELSE -1

\* End of the match of the regex that starts at offset i, or -1.
MatchAt(s, i) ==
    IF /\ Ch(s, i) \in {"{", "}", "\"", ",", "=", "\n"}
       /\ (i = 0 \/ Ch(s, i - 1) # "\\")
    THEN i + 1
    ELSE IF /\ i > 0
            /\ Ch(s, i - 1) = "\n"
            /\ Ch(s, i) = "@"
            /\ WordEnd(s, i + 1) < Len(s)
            /\ Ch(s, WordEnd(s, i + 1)) = "{"
         THEN WordEnd(s, i + 1)
         ELSE -1

RECURSIVE FindIter(_, _)
\* re.finditer(regex, s): the non-overlapping matches from offset pos on
FindIter(s, pos) ==
    IF pos >= Len(s) THEN <<>>
    ELSE LET e == MatchAt(s, pos)
         IN  IF e = -1 THEN FindIter(s, pos + 1)
             ELSE <<[start |-> pos, end |-> e, group |-> Slice(s, pos, e)]>>
                  \o FindIter(s, e)

-----------------------------------------------------------------------------
(* Blocks (bibtexparser.model) and the ordered field dict                   *)

NoBlock == [type |-> "None"]
NoIndex == -1            \* None, where the code holds Optional[int]

Field(sl, key, value) == [start_line |-> sl, key |-> key, value |-> value]

ImplicitComment(sl, raw, comment) ==
    [type |-> "ImplicitComment", start_line |-> sl, raw |-> raw, comment |-> comment]

ExplicitComment(sl, comment, raw) ==
    [type |-> "ExplicitComment", start_line |-> sl, raw |-> raw, comment |-> comment]

Preamble(sl, value, raw) ==
    [type |-> "Preamble", start_line |-> sl, raw |-> raw, value |-> value]

String(sl, key, value, raw) ==
    [type |-> "String", start_line |-> sl, raw |-> raw, key |-> key, value |-> value]

Entry(sl, entry_type, key, fields, raw) ==
    [type |-> "Entry", start_line |-> sl, raw |-> raw, entry_type |-> entry_type,
     key |-> key, fields |-> fields]

DuplicateFieldKeyBlock(duplicate_keys, entry) ==
    [type |-> "DuplicateFieldKeyBlock", duplicate_keys |-> duplicate_keys,
     entry |-> entry]

ParsingFailedBlock(sl, raw, error) ==
    [type |-> "ParsingFailedBlock", start_line |-> sl, raw |-> raw, error |-> error]

BlockAbortedException(abort_reason, end_index) ==
    [abort_reason |-> abort_reason, end_index |-> end_index]

\* key in result, for the insertion-ordered dict held as a sequence of Fields
InDict(result, key) == \E i \in 1..Len(result) : result[i].key = key

\* result[key] = field
DictSet(result, key, field) ==
    IF InDict(result, key)
    THEN [i \in 1..Len(result) |-> IF result[i].key = key THEN field ELSE result[i]]
    ELSE Append(result, field)

-----------------------------------------------------------------------------
(* Splitter._end_implicit_comment                                          *)

EndImplicitComment(end_char_index) ==
    IF implicit_comment_start = NoIndex THEN NoBlock
    ELSE
    LET comment == Slice(bibstr, implicit_comment_start, end_char_index)
        \* the offsets at which the for loop would break
        breaks == {j \in 0..(Len(comment) - 1) :
                      Ch(comment, j) # "\n" /\ ~IsSpace(Ch(comment, j))}
        i == IF breaks # {} THEN CHOOSE j \in breaks : \A k \in breaks : j <= k
             ELSE Max(Len(comment) - 1, 0)
        counted == IF breaks # {} THEN i ELSE Len(comment)
        leading_empty_lines ==
            Cardinality({j \in 0..(counted - 1) : Ch(comment, j) = "\n"})
        stripped == RStrip(Slice(comment, i, Len(comment)))
    IN  IF Len(stripped) > 0
        THEN ImplicitComment(implicit_comment_start_line + leading_empty_lines,
                             stripped, stripped)
        ELSE NoBlock

-----------------------------------------------------------------------------
(* Splitter._next_mark                                                     *)

RECURSIVE AdvanceCountingEveryMark(_, _)
\* Advance with the line counter incremented for the mark returned too
AdvanceCountingEveryMark(it, line) ==
    IF it = <<>>
    THEN [m |-> None, it |-> it, line |-> line, cci |-> Len(bibstr)]
    ELSE IF Head(it).group = "\n"
         THEN AdvanceCountingEveryMark(Tail(it), line + 1)
         ELSE [m |-> Head(it), it |-> Tail(it), line |-> line + 1,
               cci |-> Head(it).start]

\* Advance that returns a newline mark to the caller
AdvanceReturningNewline(it, line) ==
    IF it = <<>>
    THEN [m |-> None, it |-> it, line |-> line, cci |-> Len(bibstr)]
    ELSE [m |-> Head(it), it |-> Tail(it),
          line |-> IF Head(it).group = "\n" THEN line + 1 ELSE line,
          cci |-> Head(it).start]

RECURSIVE Advance(_, _)
\* next(self._markiter, None), repeated while the mark drawn is a newline
Advance(it, line) ==
    IF it = <<>>
    THEN [m |-> None, it |-> it, line |-> line, cci |-> Len(bibstr)]
    ELSE IF Head(it).group = "\n"
         THEN Advance(Tail(it), line + 1)
         ELSE [m |-> Head(it), it |-> Tail(it), line |-> line, cci |-> Head(it).start]

\* NextMark without line 81: the mark returned stays in the pushback slot
NextMarkKeepingSlot(accept_eof) ==
    IF unaccepted_mark # None
    THEN [m |-> unaccepted_mark, um |-> unaccepted_mark, it |-> markiter,
          line |-> current_line, cci |-> unaccepted_mark.start, raised |-> FALSE]
    ELSE LET a == Advance(markiter, current_line)
         IN  [m |-> a.m, um |-> None, it |-> a.it, line |-> a.line, cci |-> a.cci,
              raised |-> (a.m = None /\ ~accept_eof)]

\* The outcome of one call: the mark returned (None at end of file), the
\* fields the call assigns, and whether it raised BlockAbortedException.
NextMark(accept_eof) ==
    IF unaccepted_mark # None
    THEN [m |-> unaccepted_mark, um |-> None, it |-> markiter,
          line |-> current_line, cci |-> unaccepted_mark.start, raised |-> FALSE]
    ELSE LET a == Advance(markiter, current_line)
         IN  [m |-> a.m, um |-> None, it |-> a.it, line |-> a.line, cci |-> a.cci,
              raised |-> (a.m = None /\ ~accept_eof)]

EofReason == "Unexpectedly reached end of file."

\* the assignments of a call of _next_mark whose outcome is nm
Scanned(nm) ==
    /\ markiter' = nm.it
    /\ current_line' = nm.line
    /\ current_char_index' = nm.cci

-----------------------------------------------------------------------------
(* Locals of the handlers                                                  *)

NoLoc ==
    [caller |-> "", start_index |-> 0, start_line |-> 0, start_bracket_mark |-> None,
     entry_type |-> "", key |-> "", key_start |-> 0, result |-> <<>>,
     duplicate_keys |-> {}, equals_mark |-> None, f_start_line |-> 0,
     key_end |-> 0, value_start |-> 0, value_start_mark |-> None,
     num_additional_brackets |-> 0]

\* m_val of split
m_val == Lower(m.group)

\* Splitter._reset_block_status(current_char_index), called with the
\* line counter at line
ResetBlockStatus(char_index, line) ==
    /\ open_brackets' = 0
    /\ is_quote_open' = FALSE
    /\ expected_next' = None
    /\ implicit_comment_start_line' = line
    /\ implicit_comment_start' = char_index

\* One entry of hist per block of library: the block-start mark it was handled
\* for (None for an implicit comment), the slice bibstr[from:to] its raw was
\* cut as (for an implicit comment: the region it was harvested from), the
\* mark read last, and the offset the next implicit-comment region starts at.
HistEntry(mark, from, to, cause, resume) ==
    [mark |-> mark, from |-> from, to |-> to, cause |-> cause, resume |-> resume]

\* Aborted with the pushback slot cleared
AbortedDroppingMark(nm, um, abort_reason, end_index) ==
    /\ Scanned(nm)
    /\ unaccepted_mark' = None
    /\ library' = Append(library,
           ParsingFailedBlock(start_line, Slice(bibstr, m.start, end_index),
                              BlockAbortedException(abort_reason, end_index)))
    /\ hist' = Append(hist, HistEntry(m, m.start, end_index, nm.m, nm.cci + 1))
    /\ ResetBlockStatus(nm.cci + 1, nm.line)
    /\ pc' = "split"
    /\ loc' = NoLoc
    /\ UNCHANGED <<bibstr, m, start_line, prev>>

\* split, lines 255-283: a handler raised BlockAbortedException e after the
\* call nm of _next_mark, having left um in the pushback slot.
Aborted(nm, um, abort_reason, end_index) ==
    /\ Scanned(nm)
    /\ unaccepted_mark' = um
    /\ library' = Append(library,
           ParsingFailedBlock(start_line, Slice(bibstr, m.start, end_index),
                              BlockAbortedException(abort_reason, end_index)))
    /\ hist' = Append(hist, HistEntry(m, m.start, end_index, nm.m, nm.cci + 1))
    /\ ResetBlockStatus(nm.cci + 1, nm.line)
    /\ pc' = "split"
    /\ loc' = NoLoc
    /\ UNCHANGED <<bibstr, m, start_line, prev>>

\* split, lines 246-253 and 281-283: a handler returned block after the call
\* nm of _next_mark; raw was cut as bibstr[from:to].
Returned(nm, block, from, to) ==
    /\ Scanned(nm)
    /\ unaccepted_mark' = nm.um
    /\ library' = Append(library, block)
    /\ hist' = Append(hist, HistEntry(m, from, to, nm.m, nm.cci + 1))
    /\ ResetBlockStatus(nm.cci + 1, nm.line)
    /\ pc' = "split"
    /\ loc' = NoLoc
    /\ UNCHANGED <<bibstr, m, start_line, prev>>

\* split, lines 272-279: a handler raised ParserStateException after the call
\* nm of _next_mark; split re-raises it.
Fatal(nm) ==
    /\ Scanned(nm)
    /\ unaccepted_mark' = nm.m
    /\ pc' = "raised"
    /\ UNCHANGED <<bibstr, open_brackets, is_quote_open, expected_next,
                   implicit_comment_start_line, implicit_comment_start,
                   library, m, start_line, loc, hist, prev>>

\* a handler goes on to its next call of _next_mark
Goto(nm, um, label, newloc) ==
    /\ Scanned(nm)
    /\ unaccepted_mark' = um
    /\ pc' = label
    /\ loc' = newloc
    /\ UNCHANGED <<bibstr, is_quote_open, expected_next,
                   implicit_comment_start_line, implicit_comment_start,
                   library, m, start_line, hist, prev>>

-----------------------------------------------------------------------------
(* Splitter.split: the top-level loop                                      *)

\* split, lines 220-222: the iterator over the marks of bibstr is created
split_begin ==
    /\ pc = "idle"
    /\ markiter' = FindIter(bibstr, 0)
    /\ pc' = "split"
    /\ UNCHANGED <<bibstr, unaccepted_mark, current_line, current_char_index,
                   open_brackets, is_quote_open, expected_next,
                   implicit_comment_start_line, implicit_comment_start,
                   library, m, start_line, loc, hist, prev>>

\* the handler split dispatches the lower-cased block-start val to
Handler(val) ==
    IF StartsWith(val, "@comment") THEN "explicit_comment"
    ELSE IF StartsWith(val, "@preamble") THEN "preamble"
    ELSE IF StartsWith(val, "@string") THEN "string"
    ELSE "entry"

\* split, lines 229-243 and 284-294: one round of the while loop
split_next_mark ==
    /\ pc = "split"
    /\ LET nm == NextMark(TRUE) IN
       /\ Scanned(nm)
       /\ unaccepted_mark' = nm.um
       /\ IF nm.m = None
          THEN \* end of file: the implicit comment at the EOF, then return
               LET comment == IF implicit_comment_start # NoIndex
                              THEN EndImplicitComment(Len(bibstr)) ELSE NoBlock
               IN  /\ library' = IF comment # NoBlock THEN Append(library, comment)
                                 ELSE library
                   /\ hist' = IF comment # NoBlock
                              THEN Append(hist, HistEntry(None, implicit_comment_start,
                                                          Len(bibstr), None, NoIndex))
                              ELSE hist
                   /\ pc' = "returned"
                   /\ UNCHANGED <<implicit_comment_start, m, start_line>>
          ELSE IF StartsWith(Lower(nm.m.group), "@")
          THEN \* a block start: close the implicit comment, enter the handler
               LET implicit_comment == EndImplicitComment(nm.m.start)
               IN  /\ library' = IF implicit_comment # NoBlock
                                 THEN Append(library, implicit_comment) ELSE library
                   /\ hist' = IF implicit_comment # NoBlock
                              THEN Append(hist, HistEntry(None, implicit_comment_start,
                                                          nm.m.start, nm.m, NoIndex))
                              ELSE hist
                   /\ implicit_comment_start' = NoIndex
                   /\ m' = nm.m
                   /\ start_line' = nm.line
                   /\ pc' = Handler(Lower(nm.m.group))
          ELSE \* part of an implicit comment
               /\ pc' = "split"
               /\ UNCHANGED <<implicit_comment_start, library, m, start_line, hist>>
    /\ UNCHANGED <<bibstr, open_brackets, is_quote_open, expected_next,
                   implicit_comment_start_line, loc, prev>>

-----------------------------------------------------------------------------
(* Splitter._move_to_end_of_entry, lines 190-201: the field just read is    *)
(* stored under its key, renamed when that key is taken                    *)

\* DuplicateCount without the search for a free name
DuplicateCountFirst(result, key, n) == n

RECURSIVE DuplicateCount(_, _, _)
\* the while loop of lines 195-197, entered with duplicate_count = n
DuplicateCount(result, key, n) ==
    IF InDict(result, key \o "_duplicate_" \o Str(n))
    THEN DuplicateCount(result, key, n + 1)
    ELSE n

\* FieldKey without the renaming of a key that is taken
FieldKeyUnrenamed(result, key) == key

FieldKey(result, key) ==
    IF InDict(result, key)
    THEN key \o "_duplicate_" \o Str(DuplicateCount(result, key, 1))
    ELSE key

\* StoreField without the strip() of key and value
StoreFieldUntrimmed(l, value_start, value_end) ==
    LET key   == Slice(bibstr, l.key_start, l.key_end)
        value == Slice(bibstr, value_start, value_end)
        k     == FieldKey(l.result, key)
    IN  [l EXCEPT !.duplicate_keys = IF InDict(l.result, key) THEN @ \cup {key} ELSE @,
                  !.result = DictSet(@, k, Field(l.f_start_line, k, value))]

\* loc after lines 190-201, the value being bibstr[value_start:value_end]
StoreField(l, value_start, value_end) ==
    LET key   == Strip(Slice(bibstr, l.key_start, l.key_end))
        value == Strip(Slice(bibstr, value_start, value_end))
        k     == FieldKey(l.result, key)
    IN  [l EXCEPT !.duplicate_keys = IF InDict(l.result, key) THEN @ \cup {key} ELSE @,
                  !.result = DictSet(@, k, Field(l.f_start_line, k, value))]

-----------------------------------------------------------------------------
(* Splitter._move_to_closed_bracket and what its four callers do with the   *)
(* index it returns                                                        *)

\* _handle_explicit_comment, lines 310-315
ExplicitCommentOf(l, end_bracket_index) ==
    ExplicitComment(l.start_line,
                    Strip(Slice(bibstr, l.start_bracket_mark.end, end_bracket_index)),
                    Slice(bibstr, l.start_index, end_bracket_index + 1))

\* _handle_preamble, lines 402-407
PreambleOf(l, end_bracket_index) ==
    Preamble(l.start_line,
             Slice(bibstr, l.start_bracket_mark.end, end_bracket_index),
             Slice(bibstr, l.start_index, end_bracket_index + 1))

\* _handle_string, lines 380-386
StringOf(l, end_i) ==
    String(l.start_line, l.key, Strip(Slice(bibstr, l.value_start, end_i)),
           Slice(bibstr, l.start_index, end_i + 1))

\* move_to_closed_bracket that does not count the brackets opened inside
move_to_closed_bracket_flat ==
    /\ pc = "closed_bracket"
    /\ LET nm == NextMark(FALSE) IN
       IF nm.raised
       THEN Aborted(nm, nm.um, EofReason, nm.cci)
       ELSE IF nm.m.group = "{"
       THEN /\ Goto(nm, nm.um, "closed_bracket", loc)
            /\ UNCHANGED open_brackets
       ELSE IF nm.m.group = "}"
       THEN IF loc.num_additional_brackets = 0
            THEN \* return m.start() to the caller
                 CASE loc.caller = "explicit_comment" ->
                        Returned(nm, ExplicitCommentOf(loc, nm.m.start),
                                 loc.start_index, nm.m.start + 1)
                   [] loc.caller = "preamble" ->
                        Returned(nm, PreambleOf(loc, nm.m.start),
                                 loc.start_index, nm.m.start + 1)
                   [] loc.caller = "string" ->
                        Returned(nm, StringOf(loc, nm.m.start),
                                 loc.start_index, nm.m.start + 1)
                   [] loc.caller = "entry" ->
                        /\ Goto(nm, nm.um, "after_field_mark",
                                StoreField(loc, loc.value_start, nm.m.start + 1))
                        /\ UNCHANGED open_brackets
            ELSE /\ Goto(nm, nm.um, "closed_bracket",
                         [loc EXCEPT !.num_additional_brackets = @ - 1])
                 /\ UNCHANGED open_brackets
       ELSE IF StartsWith(nm.m.group, "@")
       THEN Aborted(nm, nm.m,
                    "Unexpected block start: " \o nm.m.group
                        \o ". Was still looking for closing bracket",
                    nm.m.start - 1)
       ELSE /\ Goto(nm, nm.um, "closed_bracket", loc)
            /\ UNCHANGED open_brackets

\* _move_to_closed_bracket, lines 102-120, and the caller's use of its result
move_to_closed_bracket ==
    /\ pc = "closed_bracket"
    /\ LET nm == NextMark(FALSE) IN
       IF nm.raised
       THEN Aborted(nm, nm.um, EofReason, nm.cci)
       ELSE IF nm.m.group = "{"
       THEN /\ Goto(nm, nm.um, "closed_bracket",
                    [loc EXCEPT !.num_additional_brackets = @ + 1])
            /\ UNCHANGED open_brackets
       ELSE IF nm.m.group = "}"
       THEN IF loc.num_additional_brackets = 0
            THEN \* return m.start() to the caller
                 CASE loc.caller = "explicit_comment" ->
                        Returned(nm, ExplicitCommentOf(loc, nm.m.start),
                                 loc.start_index, nm.m.start + 1)
                   [] loc.caller = "preamble" ->
                        Returned(nm, PreambleOf(loc, nm.m.start),
                                 loc.start_index, nm.m.start + 1)
                   [] loc.caller = "string" ->
                        Returned(nm, StringOf(loc, nm.m.start),
                                 loc.start_index, nm.m.start + 1)
                   [] loc.caller = "entry" ->
                        /\ Goto(nm, nm.um, "after_field_mark",
                                StoreField(loc, loc.value_start, nm.m.start + 1))
                        /\ UNCHANGED open_brackets
            ELSE /\ Goto(nm, nm.um, "closed_bracket",
                         [loc EXCEPT !.num_additional_brackets = @ - 1])
                 /\ UNCHANGED open_brackets
       ELSE IF StartsWith(nm.m.group, "@")
       THEN Aborted(nm, nm.m,
                    "Unexpected block start: " \o nm.m.group
                        \o ". Was still looking for closing bracket",
                    nm.m.start - 1)
       ELSE /\ Goto(nm, nm.um, "closed_bracket", loc)
            /\ UNCHANGED open_brackets

\* _handle_explicit_comment, lines 298-309
handle_explicit_comment ==
    /\ pc = "explicit_comment"
    /\ LET nm == NextMark(FALSE)
           l  == [NoLoc EXCEPT !.caller = "explicit_comment",
                               !.start_index = current_char_index,
                               !.start_line = current_line,
                               !.start_bracket_mark = nm.m]
       IN  IF nm.raised THEN Aborted(nm, nm.um, EofReason, nm.cci)
           ELSE IF nm.m.group # "{" THEN Fatal(nm)
           ELSE /\ Goto(nm, nm.um, "closed_bracket", l)
                /\ UNCHANGED open_brackets

\* _handle_preamble, lines 390-401
handle_preamble ==
    /\ pc = "preamble"
    /\ LET nm == NextMark(FALSE)
           l  == [NoLoc EXCEPT !.caller = "preamble",
                               !.start_index = current_char_index,
                               !.start_line = current_line,
                               !.start_bracket_mark = nm.m]
       IN  IF nm.raised THEN Aborted(nm, nm.um, EofReason, nm.cci)
           ELSE IF nm.m.group # "{" THEN Fatal(nm)
           ELSE /\ Goto(nm, nm.um, "closed_bracket", l)
                /\ UNCHANGED open_brackets

-----------------------------------------------------------------------------
(* Splitter._handle_string                                                 *)

\* _handle_string, lines 359-368
handle_string ==
    /\ pc = "string"
    /\ LET nm == NextMark(FALSE)
           l  == [NoLoc EXCEPT !.caller = "string",
                               !.start_index = current_char_index,
                               !.start_line = current_line,
                               !.start_bracket_mark = nm.m]
       IN  IF nm.raised THEN Aborted(nm, nm.um, EofReason, nm.cci)
           ELSE IF nm.m.group # "{" THEN Fatal(nm)
           ELSE /\ Goto(nm, nm.um, "string_equals_mark", l)
                /\ UNCHANGED open_brackets

\* _handle_string, lines 369-379
handle_string_equals_mark ==
    /\ pc = "string_equals_mark"
    /\ LET nm == NextMark(FALSE) IN
       IF nm.raised THEN Aborted(nm, nm.um, EofReason, nm.cci)
       ELSE IF nm.m.group # "="
       THEN Aborted(nm, nm.m,
                    "Expected equals sign after field key, but found " \o nm.m.group,
                    nm.m.end)
       ELSE /\ Goto(nm, nm.um, "closed_bracket",
                    [loc EXCEPT !.equals_mark = nm.m,
                                !.key = Strip(Slice(bibstr, m.end + 1, nm.m.start)),
                                !.value_start = nm.m.end,
                                !.num_additional_brackets = 0])
            /\ UNCHANGED open_brackets

-----------------------------------------------------------------------------
(* Splitter._handle_entry and Splitter._move_to_end_of_entry               *)

\* _handle_entry, lines 319-329
handle_entry ==
    /\ pc = "entry"
    /\ LET nm == NextMark(FALSE)
           l  == [NoLoc EXCEPT !.caller = "entry",
                               !.start_line = current_line,
                               !.entry_type = SubSeq(m_val, 2, Len(m_val)),
                               !.start_bracket_mark = nm.m]
       IN  IF nm.raised THEN Aborted(nm, nm.um, EofReason, nm.cci)
           ELSE IF nm.m.group # "{" THEN Fatal(nm)
           ELSE /\ Goto(nm, nm.um, "comma_mark", l)
                /\ UNCHANGED open_brackets

\* _handle_entry, lines 330-340, and _move_to_end_of_entry, lines 141-144
handle_entry_comma_mark ==
    /\ pc = "comma_mark"
    /\ LET nm == NextMark(FALSE) IN
       IF nm.raised THEN Aborted(nm, nm.um, EofReason, nm.cci)
       ELSE IF nm.m.group # ","
       THEN Aborted(nm, nm.m,
                    "Expected comma after entry key, but found " \o nm.m.group,
                    nm.m.end)
       ELSE /\ Goto(nm, nm.um, "equals_mark",
                    [loc EXCEPT !.key = Strip(Slice(bibstr, m.end + 1, nm.m.start)),
                                !.key_start = nm.m.end,
                                !.result = <<>>,
                                !.duplicate_keys = {}])
            /\ open_brackets' = open_brackets + 1

\* _handle_entry, lines 342-354: the block returned for the fields read
EntryOf(l, end_index) ==
    LET entry == Entry(l.start_line, l.entry_type, l.key, l.result,
                       Slice(bibstr, m.start, end_index + 1))
    IN  IF Cardinality(l.duplicate_keys) > 0
        THEN DuplicateFieldKeyBlock(l.duplicate_keys, entry)
        ELSE entry

\* _move_to_end_of_entry, lines 146-163
move_to_end_of_entry_equals_mark ==
    /\ pc = "equals_mark"
    /\ LET nm == NextMark(FALSE) IN
       IF nm.raised THEN Aborted(nm, nm.um, EofReason, nm.cci)
       ELSE IF nm.m.group = "}"
       THEN \* end of entry: return result, equals_mark.end(), duplicate_keys
            Returned(nm, EntryOf(loc, nm.m.end), m.start, nm.m.end + 1)
       ELSE IF nm.m.group # "="
       THEN Aborted(nm, nm.m,
                    "Expected a = after entry key, but found " \o nm.m.group,
                    nm.m.start)
       ELSE /\ Goto(nm, nm.um, "value_start_mark",
                    [loc EXCEPT !.equals_mark = nm.m,
                                !.f_start_line = nm.line,
                                !.key_end = nm.m.start,
                                !.value_start = nm.m.end])
            /\ UNCHANGED open_brackets

\* _move_to_end_of_entry, lines 164-201
move_to_end_of_entry_value_start_mark ==
    /\ pc = "value_start_mark"
    /\ LET nm == NextMark(FALSE) IN
       IF nm.raised THEN Aborted(nm, nm.um, EofReason, nm.cci)
       ELSE IF nm.m.group = "{"
       THEN /\ Goto(nm, nm.um, "closed_bracket",
                    [loc EXCEPT !.value_start_mark = nm.m,
                                !.num_additional_brackets = 0])
            /\ UNCHANGED open_brackets
       ELSE IF nm.m.group = "\""
       THEN /\ Goto(nm, nm.um, "double_quoted_string",
                    [loc EXCEPT !.value_start_mark = nm.m])
            /\ UNCHANGED open_brackets
       ELSE IF nm.m.group \notin {",", "}"}
       THEN Aborted(nm, nm.m,
                    "Unexpected character " \o nm.m.group
                        \o " after field-value. Expected a comma or closing bracket.",
                    nm.m.start)
       ELSE \* a bare value, ended by the mark, which is put back
            /\ Goto(nm, nm.m, "after_field_mark",
                    StoreField([loc EXCEPT !.value_start_mark = nm.m],
                               loc.equals_mark.end, nm.m.start))
            /\ UNCHANGED open_brackets

\* _move_to_end_of_double_quoted_string, and lines 169 and 190-201 of its caller
move_to_end_of_double_quoted_string ==
    /\ pc = "double_quoted_string"
    /\ LET nm == NextMark(FALSE) IN
       IF nm.raised THEN Aborted(nm, nm.um, EofReason, nm.cci)
       ELSE IF nm.m.group = "\""
       THEN /\ Goto(nm, nm.um, "after_field_mark",
                    StoreField(loc, loc.value_start, nm.m.start + 1))
            /\ UNCHANGED open_brackets
       ELSE IF StartsWith(nm.m.group, "@")
       THEN Aborted(nm, nm.m,
                    "Unexpected block start: " \o nm.m.group
                        \o ". Was still looking for field-value closing quote",
                    nm.m.start - 1)
       ELSE /\ Goto(nm, nm.um, "double_quoted_string", loc)
            /\ UNCHANGED open_brackets

\* _move_to_end_of_entry, lines 203-217
move_to_end_of_entry_after_field_mark ==
    /\ pc = "after_field_mark"
    /\ LET nm == NextMark(FALSE) IN
       IF nm.raised THEN Aborted(nm, nm.um, EofReason, nm.cci)
       ELSE IF nm.m.group = ","
       THEN /\ Goto(nm, nm.um, "equals_mark", [loc EXCEPT !.key_start = nm.m.end])
            /\ UNCHANGED open_brackets
       ELSE IF nm.m.group = "}"
       THEN /\ Goto(nm, nm.m, "equals_mark", loc)
            /\ UNCHANGED open_brackets
       ELSE Aborted(nm, nm.m,
                    "Expected either a , or } after a closed entry field value, but found a "
                        \o nm.m.group \o " before.",
                    nm.m.start)

-----------------------------------------------------------------------------
(* The sources split is run on                                             *)

\* the most pieces a composed source has
MaxPieces == 3
\* the most blank lines put before a block
MaxBlank == 2

\* well-formed blocks, one per grammar form of the handlers
WellFormed ==
    {"@T{k, a=1, b=\"x\", c={y}}",
     "@T{k, a=1, a=2}",
     "@T{k, a={x\\}y}}",
     "@a{k,a=1,a_duplicate_1=2,a=3,a_duplicate_2=4 }",
     "@a{ k ,a = {x@y{z}} ,b=\"\n@ c\",}",
     "@a{k,a={\n@y{z}}}",
     "@a{k,a=\"\n@y{\"}",
     "@string{s = \"v\"}",
     "@String{ s={v} }",
     "@preamble{ p }",
     "@comment{ c {d} }"}

\* every block cut short at any offset
Cuts == UNION {{SubSeq(w, 1, n) : n \in 0..Len(w)} : w \in WellFormed}

RECURSIVE Blank(_)
Blank(n) == IF n = 0 THEN "" ELSE "\n" \o Blank(n - 1)

\* what precedes a cut block
Leads == {Blank(n) : n \in 0..MaxBlank} \cup {" x \n", "y\\\n"}

\* what follows a cut block
Trails ==
    {"", "\n@U{j,b=2}\n", "\n\n z \n", "}", "{", ",", "=", "\"", "}\n@U{j",
     " @U{j,b=2}"}

\* whole blocks and stray text, each ending its line
Pieces ==
    {"@A{k,a=1}\n", "@string{s={v}}\n", "@Preamble{p}\n",
     "@a{k,a=1\n", "@a{k\n", "z\n", "\n", "y\\\n"}

RECURSIVE Concat(_)
Concat(ps) == IF ps = <<>> THEN "" ELSE Head(ps) \o Concat(Tail(ps))

Composed == {Concat(ps) : ps \in UNION {[1..n -> Pieces] : n \in 0..MaxPieces}}

\* the sources split is run on
Inputs == {l \o c \o t : l \in Leads, c \in Cuts, t \in Trails} \cup Composed

\* no run of split came before this one
NoRun == [kind |-> "none"]

\* Splitter.__init__
Init ==
    /\ bibstr \in {"\n" \o s : s \in Inputs}
    /\ markiter = None
    /\ unaccepted_mark = None
    /\ current_line = -1
    /\ current_char_index = NoIndex
    /\ open_brackets = 0
    /\ is_quote_open = FALSE
    /\ expected_next = None
    /\ implicit_comment_start_line = -1
    /\ implicit_comment_start = 0
    /\ library = <<>>
    /\ pc = "idle"
    /\ m = None
    /\ start_line = -1
    /\ loc = NoLoc
    /\ hist = <<>>
    /\ prev = NoRun

Next ==
    \/ split_begin
    \/ split_next_mark
    \/ handle_explicit_comment
    \/ handle_preamble
    \/ handle_string
    \/ handle_string_equals_mark
    \/ handle_entry
    \/ handle_entry_comma_mark
    \/ move_to_end_of_entry_equals_mark
    \/ move_to_end_of_entry_value_start_mark
    \/ move_to_end_of_entry_after_field_mark
    \/ move_to_closed_bracket
    \/ move_to_end_of_double_quoted_string

Spec == Init /\ [][Next]_vars

-----------------------------------------------------------------------------
(* Properties                                                              *)

IsBlockStart(k) == StartsWith(k.group, "@")

\* the offsets of the input's block-start tokens: an @ directly after a
\* newline, then word characters, then {
BlockStartOffsets ==
    {p \in 1..(Len(bibstr) - 1) :
        /\ Ch(bibstr, p) = "@"
        /\ Ch(bibstr, p - 1) = "\n"
        /\ WordEnd(bibstr, p + 1) < Len(bibstr)
        /\ Ch(bibstr, WordEnd(bibstr, p + 1)) = "{"}

IsHandled(h) == h.mark # None
\* the history of the blocks that came from a handler
Handled == SelectSeq(hist, IsHandled)

StructuredTypes(mark) ==
    CASE Handler(Lower(mark.group)) = "explicit_comment" -> {"ExplicitComment"}
      [] Handler(Lower(mark.group)) = "preamble" -> {"Preamble"}
      [] Handler(Lower(mark.group)) = "string" -> {"String"}
      [] Handler(Lower(mark.group)) = "entry" -> {"Entry", "DuplicateFieldKeyBlock"}

\* the Entry of an entry block
EntryIn(b) == IF b.type = "DuplicateFieldKeyBlock" THEN b.entry ELSE b

\* C1: every block-start token of the input yields exactly one block that is
\* not an ImplicitComment, of the variant of its handler or a
\* ParsingFailedBlock, and these blocks are appended in the order of their
\* block-start tokens: while split runs the handled tokens are a prefix of the
\* input's block-start tokens, and when it has returned they are all of them.
C1_OneBlockPerBlockStart ==
    /\ pc # "raised"
    /\ Len(library) = Len(hist)
    /\ \A i \in 1..Len(hist) :
          /\ (library[i].type = "ImplicitComment") <=> (hist[i].mark = None)
          /\ hist[i].mark # None =>
                library[i].type \in {"ParsingFailedBlock"} \cup StructuredTypes(hist[i].mark)
    /\ LET starts  == [i \in 1..Len(Handled) |-> Handled[i].mark.start]
           offsets == BlockStartOffsets
       IN  /\ \A i \in 1..(Len(starts) - 1) : starts[i] < starts[i + 1]
           /\ Len(starts) > 0 =>
                 {p \in offsets : p <= starts[Len(starts)]}
                     = {starts[j] : j \in 1..Len(starts)}
           /\ pc = "returned" => offsets = {starts[j] : j \in 1..Len(starts)}

\* two aborted blocks, then a completed one
C1_Witness ==
    /\ pc = "returned"
    /\ \E i, j, k \in 1..Len(library) :
          /\ i < j /\ j < k
          /\ library[i].type = "ParsingFailedBlock"
          /\ library[j].type = "ParsingFailedBlock"
          /\ library[k].type \in {"Entry", "String", "Preamble", "ExplicitComment"}

\* C2: a ParsingFailedBlock whose block was aborted by a block-start token has
\* a raw that starts at the @ of its own block start and ends before the @ of
\* the aborting one, and the block emitted next is the aborting token's.
C2_RawEndsBeforeNextBlockStart ==
    \A i \in 1..Len(hist) :
        (library[i].type = "ParsingFailedBlock" /\ IsBlockStart(hist[i].cause)) =>
            /\ library[i].raw = Slice(bibstr, hist[i].mark.start, hist[i].to)
            /\ hist[i].to <= hist[i].cause.start
            /\ i < Len(hist) => hist[i + 1].mark = hist[i].cause

\* C3: after an abort on a token of the wrong kind the token is in the pushback
\* slot for the next top-level read, and the raw of the ParsingFailedBlock
\* ends where the region scanned next starts: at the aborting block start,
\* else at the start of the following implicit-comment region.
C3_NothingSkippedOrDuplicated ==
    /\ (pc = "split" /\ unaccepted_mark # None) =>
          (Len(hist) > 0 /\ unaccepted_mark = hist[Len(hist)].cause)
    /\ \A i \in 1..Len(hist) :
          (library[i].type = "ParsingFailedBlock" /\ hist[i].cause # None) =>
              hist[i].to = IF IsBlockStart(hist[i].cause) THEN hist[i].cause.start
                           ELSE hist[i].resume

\* C4: the raw of a parsed entry is the source from the @ of its block start
\* through its closing bracket, and nothing after it.
C4_EntryRawEndsAtClosingBracket ==
    \A i \in 1..Len(hist) :
        library[i].type \in {"Entry", "DuplicateFieldKeyBlock"} =>
            /\ EntryIn(library[i]).raw
                   = Slice(bibstr, hist[i].mark.start, hist[i].cause.end)
            /\ Ch(EntryIn(library[i]).raw, 0) = "@"
            /\ Ch(EntryIn(library[i]).raw, Len(EntryIn(library[i]).raw) - 1) = "}"

\* the offset of the first character of block i of library
FirstChar(i) ==
    IF hist[i].mark # None THEN hist[i].from
    ELSE CHOOSE p \in hist[i].from..(hist[i].to - 1) :
            /\ ~IsSpace(Ch(bibstr, p))
            /\ \A q \in hist[i].from..(p - 1) : IsSpace(Ch(bibstr, q))

\* the 1-based line of the caller's input that offset p of bibstr is on
CallerLine(p) == 1 + Cardinality({j \in 1..(p - 1) : Ch(bibstr, j) = "\n"})

\* the newlines of the caller's input before offset p that no backslash precedes
UnescapedNewlinesBefore(p) ==
    Cardinality({j \in 1..(p - 1) : Ch(bibstr, j) = "\n" /\ Ch(bibstr, j - 1) # "\\"})

\* C5, as claimed: a block whose first character is on the n-th line of the
\* caller's input, the first line being 1, has start_line = n.
C5_StartLineOneBased ==
    \A i \in 1..Len(hist) :
        EntryIn(library[i]).start_line = CallerLine(FirstChar(i))

\* C5, amended: start lines are 0-based and count the newlines that are not
\* directly preceded by a backslash: start_line is the number of such newlines
\* of the caller's input before the block's first character. The newline the
\* constructor adds (offset 0) is not counted.
C5_StartLineZeroBased ==
    \A i \in 1..Len(hist) :
        EntryIn(library[i]).start_line = UnescapedNewlinesBefore(FirstChar(i))

\* an implicit comment and a handled block, each after counted newlines, the
\* handled block also after a newline that follows a backslash
C5_Witness ==
    \E i, j \in 1..Len(hist) :
        /\ library[i].type = "ImplicitComment"
        /\ library[i].start_line >= 1
        /\ hist[j].mark # None
        /\ EntryIn(library[j]).start_line >= 1
        /\ EntryIn(library[j]).start_line < CallerLine(FirstChar(j)) - 1

\* keys and values of an ordered field dict, without the start lines
KeyValues(fields) == [i \in 1..Len(fields) |-> <<fields[i].key, fields[i].value>>]

\* the index in library of the block handled for the block-start token at
\* which the text w lies in the input, if there is one
BlocksOf(w) ==
    {i \in 1..Len(hist) :
        /\ hist[i].mark # None
        /\ Slice(bibstr, hist[i].mark.start, hist[i].mark.start + Len(w)) = w}

ValidEntry == "@T{k, a=1, b=\"x\", c={y}}"

\* every entry block: the type is the block start's word lower-cased, key,
\* field keys and field values carry no surrounding whitespace
EntriesTrimmed ==
    \A i \in 1..Len(hist) :
        library[i].type \in {"Entry", "DuplicateFieldKeyBlock"} =>
            LET e == EntryIn(library[i]) IN
            /\ e.entry_type = Lower(SubSeq(hist[i].mark.group, 2, Len(hist[i].mark.group)))
            /\ e.key = Strip(e.key)
            /\ \A f \in 1..Len(e.fields) :
                  /\ e.fields[f].key = Strip(e.fields[f].key)
                  /\ e.fields[f].value = Strip(e.fields[f].value)

\* C6, as claimed: the quoted value maps to the text between the quotes and
\* the braced value to the text between the braces.
C6_ValuesWithoutDelimiters ==
    \A i \in BlocksOf(ValidEntry) :
        /\ library[i].type = "Entry"
        /\ library[i].entry_type = "t"
        /\ library[i].key = "k"
        /\ KeyValues(library[i].fields) = << <<"a", "1">>, <<"b", "x">>, <<"c", "y">> >>

\* C6, amended: the entry @T{k, a=1, b="x", c={y}} yields an Entry of type t
\* lower-cased, key k and the fields a, b, c in order; a bare value maps to its
\* text, a quoted value to the text with its quotes and a braced value to the
\* text with its braces, each trimmed of surrounding whitespace only.
C6_ValuesWithDelimiters ==
    /\ EntriesTrimmed
    /\ \A i \in BlocksOf(ValidEntry) :
          /\ library[i].type = "Entry"
          /\ library[i].entry_type = "t"
          /\ library[i].key = "k"
          /\ KeyValues(library[i].fields)
                 = << <<"a", "1">>, <<"b", "\"x\"">>, <<"c", "{y}">> >>

C6_Witness == pc = "returned" /\ BlocksOf(ValidEntry) # {}

EscapedEntry == "@T{k, a={x\\}y}}"

\* no mark drawn from the iterator is a character that follows a backslash
NoEscapedMark ==
    /\ pc # "idle" =>
          \A i \in 1..Len(markiter) :
              markiter[i].start = 0 \/ Ch(bibstr, markiter[i].start - 1) # "\\"
    /\ \A i \in 1..Len(hist) :
          \A k \in {hist[i].mark, hist[i].cause} \ {None} :
              k.start = 0 \/ Ch(bibstr, k.start - 1) # "\\"

\* C7, as claimed: the value of a in @T{k, a={x\}y}} is x}y.
C7_EscapedValueUnwrapped ==
    /\ NoEscapedMark
    /\ \A i \in BlocksOf(EscapedEntry) :
          /\ library[i].type = "Entry"
          /\ KeyValues(library[i].fields) = << <<"a", "x}y">> >>

\* C7, amended: a structural character directly after a backslash is no token;
\* @T{k, a={x\}y}} is one Entry with the single field a, whose value is the
\* braced text as written, {x\}y}, with its braces and the backslash; the raw
\* holds the escaped character verbatim.
C7_EscapedValueVerbatim ==
    /\ NoEscapedMark
    /\ \A i \in BlocksOf(EscapedEntry) :
          /\ library[i].type = "Entry"
          /\ KeyValues(library[i].fields) = << <<"a", "{x\\}y}">> >>
          /\ Slice(library[i].raw, 0, Len(EscapedEntry)) = EscapedEntry

C7_Witness == pc = "returned" /\ BlocksOf(EscapedEntry) # {}

KeysOf(result) == {result[i].key : i \in 1..Len(result)}

DuplicateEntry == "@T{k, a=1, a=2}"

\* the example of C8: fields a and a_duplicate_1, duplicate_keys = {a}
DuplicateExample ==
    \A i \in BlocksOf(DuplicateEntry) :
        /\ library[i].type = "DuplicateFieldKeyBlock"
        /\ library[i].duplicate_keys = {"a"}
        /\ KeyValues(library[i].entry.fields)
               = << <<"a", "1">>, <<"a_duplicate_1", "2">> >>

\* a step of the entry handler that has read one field with key K: the field
\* is added after those read before, under K when K is not yet in the map,
\* else under K_duplicate_N for the smallest N >= 1 whose name is not yet in
\* the map, and then K joins duplicate_keys
FieldStored ==
    (pc \in {"value_start_mark", "closed_bracket", "double_quoted_string"}
        /\ loc.caller = "entry" /\ pc' = "after_field_mark") =>
    LET K == Strip(Slice(bibstr, loc.key_start, loc.key_end))
        n == Len(loc.result)
    IN  /\ Len(loc'.result) = n + 1
        /\ SubSeq(loc'.result, 1, n) = loc.result
        /\ IF K \notin KeysOf(loc.result)
           THEN /\ loc'.result[n + 1].key = K
                /\ loc'.duplicate_keys = loc.duplicate_keys
           ELSE /\ \E N \in 1..(n + 1) :
                      /\ loc'.result[n + 1].key = K \o "_duplicate_" \o Str(N)
                      /\ K \o "_duplicate_" \o Str(N) \notin KeysOf(loc.result)
                      /\ \A j \in 1..(N - 1) :
                            K \o "_duplicate_" \o Str(j) \in KeysOf(loc.result)
                /\ loc'.duplicate_keys = loc.duplicate_keys \cup {K}

\* the step in which the entry handler returns: a DuplicateFieldKeyBlock with
\* the collided keys if and only if a key collided, else a plain Entry, in
\* both cases with the fields as stored
EntryReturned ==
    (pc = "equals_mark" /\ Len(library') = Len(library) + 1
        /\ library'[Len(library')].type # "ParsingFailedBlock") =>
    LET b == library'[Len(library')] IN
    /\ b.type = IF loc.duplicate_keys # {} THEN "DuplicateFieldKeyBlock" ELSE "Entry"
    /\ b.type = "DuplicateFieldKeyBlock" => b.duplicate_keys = loc.duplicate_keys
    /\ EntryIn(b).fields = loc.result

\* C8: the entry handler returns a DuplicateFieldKeyBlock exactly when a field
\* key was already in the field map when it was read; the first occurrence
\* keeps its key, a colliding key K is stored as K_duplicate_N with the
\* smallest free N >= 1, in order of occurrence, and duplicate_keys is the set
\* of the keys that collided.
C8_DuplicateKeys == []DuplicateExample /\ [][FieldStored /\ EntryReturned]_vars

\* a collision whose first candidate name, a_duplicate_1, is taken
C8_Witness ==
    \E i \in 1..Len(library) :
        /\ library[i].type = "DuplicateFieldKeyBlock"
        /\ library[i].duplicate_keys = {"a"}
        /\ {"a", "a_duplicate_1", "a_duplicate_2"} \subseteq KeysOf(library[i].entry.fields)

\* the offset after what the handler of block i took: after the token it
\* read last, or, when it aborted and put that token back, at that token
\* unless the raw of the ParsingFailedBlock reaches further
RegionStartAfter(i) ==
    IF library[i].type = "ParsingFailedBlock" /\ hist[i].cause # None
    THEN Max(hist[i].to, hist[i].cause.start)
    ELSE hist[i].resume

\* the region of input that ends at offset to and follows block i (i = 0: the
\* region before the first block)
Region(i, to) == Slice(bibstr, IF i = 0 THEN 0 ELSE RegionStartAfter(i), to)

\* C9: for each region of input that no handler consumed (before the first
\* block, between two blocks, after the last) the sink holds exactly one
\* ImplicitComment, between the blocks around the region, if the region has a
\* non-whitespace character, and none otherwise; an ImplicitComment's comment
\* is not empty and has no leading or trailing whitespace; a blank buffer
\* yields no block.
C9_OneImplicitCommentPerRegion ==
    /\ Strip(bibstr) = "" => library = <<>>
    /\ \A i \in 1..Len(hist) :
          IF library[i].type = "ImplicitComment"
          THEN /\ library[i].comment # ""
               /\ library[i].comment = Strip(library[i].comment)
               /\ i > 1 => library[i - 1].type # "ImplicitComment"
               /\ library[i].comment = Strip(Region(i - 1, hist[i].to))
          ELSE \* no implicit comment before block i: the region before it is blank
               (i = 1 \/ library[i - 1].type # "ImplicitComment") =>
                   Strip(Region(i - 1, hist[i].mark.start)) = ""
    /\ (pc = "returned" /\ Len(hist) > 0
            /\ library[Len(hist)].type # "ImplicitComment") =>
          Strip(Region(Len(hist), Len(bibstr))) = ""
    /\ (pc = "returned" /\ Len(hist) = 0) => Strip(bibstr) = ""

\* C10: the raw of an ImplicitComment is the whole region it was harvested
\* from, from the implicit-comment start offset to the token (or end of input)
\* that ended it, blank lines included.
C10_ImplicitCommentRawIsRegion ==
    \A i \in 1..Len(hist) :
        library[i].type = "ImplicitComment" =>
            library[i].raw = Slice(bibstr, hist[i].from, hist[i].to)

-----------------------------------------------------------------------------
(* A run of split on the raw of a block the run before it emitted          *)

\* what is kept of a run that has returned, block index being the one the
\* run after it is about
Run(kind, index) ==
    [kind |-> kind, index |-> index, bibstr |-> bibstr, library |-> library,
     hist |-> hist, current_line |-> current_line]

\* Splitter(source): the fields as __init__ leaves them, and an empty sink
NewSplitter(source) ==
    /\ bibstr' = "\n" \o source
    /\ markiter' = None
    /\ unaccepted_mark' = None
    /\ current_line' = -1
    /\ current_char_index' = NoIndex
    /\ open_brackets' = 0
    /\ is_quote_open' = FALSE
    /\ expected_next' = None
    /\ implicit_comment_start_line' = -1
    /\ implicit_comment_start' = 0
    /\ library' = <<>>
    /\ pc' = "idle"
    /\ m' = None
    /\ start_line' = -1
    /\ loc' = NoLoc
    /\ hist' = <<>>

\* Splitter(B.raw) for block i of the library split has returned
split_raw(i) ==
    /\ pc = "returned"
    /\ prev = NoRun
    /\ NewSplitter(EntryIn(library[i]).raw)
    /\ prev' = Run("raw", i)

NextRaw == Next \/ \E i \in 1..Len(library) : split_raw(i)

SpecRaw == Init /\ [][NextRaw]_vars

\* the variant and the content of a block: entry type, key, field keys and
\* values, collided keys, comment or value text
Content(b) ==
    CASE b.type = "Entry" ->
           <<b.type, b.entry_type, b.key, KeyValues(b.fields)>>
      [] b.type = "DuplicateFieldKeyBlock" ->
           <<b.type, b.duplicate_keys, b.entry.entry_type, b.entry.key,
             KeyValues(b.entry.fields)>>
      [] b.type = "String" -> <<b.type, b.key, b.value>>
      [] b.type = "Preamble" -> <<b.type, b.value>>
      [] b.type \in {"ExplicitComment", "ImplicitComment"} -> <<b.type, b.comment>>
      [] b.type = "ParsingFailedBlock" -> <<b.type>>

\* C11: split run on the raw of a block B that split emitted yields a block of
\* the variant of B with the content of B (start lines apart), whatever the
\* variant of B.
C11_RawSplitsToSameBlock ==
    (pc = "returned" /\ prev.kind = "raw") =>
        \E j \in 1..Len(library) :
            Content(library[j]) = Content(prev.library[prev.index])

-----------------------------------------------------------------------------
(* The token after a block start                                           *)

\* the positions at which a handler reads its first token
HandlerPcs == {"explicit_comment", "preamble", "string", "entry"}

-----------------------------------------------------------------------------
(* A run of split on the input from a block start on                       *)

\* block i of the library was handled directly after an aborted block
AfterAborted(i) ==
    /\ i > 1
    /\ hist[i].mark # None
    /\ library[i - 1].type = "ParsingFailedBlock"

\* Splitter(source).split(), source being the input from the block start of
\* block i on
split_suffix(i) ==
    /\ pc = "returned"
    /\ prev = NoRun
    /\ AfterAborted(i)
    /\ NewSplitter(Slice(bibstr, hist[i].mark.start, Len(bibstr)))
    /\ prev' = Run("suffix", i)

NextSuffix == Next \/ \E i \in 1..Len(library) : split_suffix(i)

SpecSuffix == Init /\ [][NextSuffix]_vars

\* C13: a block start that aborted the block before it is the block start
\* handled next, and a block B handled directly after an aborted block is, in
\* variant, content and raw, the block split emits first on the input that
\* starts at the block start of B.
C13_BlockAfterAbortUnaffected ==
    /\ \A i \in 1..(Len(hist) - 1) :
          (library[i].type = "ParsingFailedBlock" /\ IsBlockStart(hist[i].cause)) =>
              hist[i + 1].mark = hist[i].cause
    /\ (prev.kind = "suffix" /\ pc = "returned") => Len(library) >= 1
    /\ (prev.kind = "suffix" /\ Len(library) >= 1) =>
          LET B == prev.library[prev.index]
          IN  /\ Content(library[1]) = Content(B)
              /\ EntryIn(library[1]).raw = EntryIn(B).raw
              /\ hist[1].mark.group = prev.hist[prev.index].mark.group

\* the block started by a token another handler had put back, each variant
\* but the explicit comment, handled again on the input that starts with it
C13_Witness ==
    /\ prev.kind = "suffix"
    /\ pc = "returned"
    /\ prev.hist[prev.index - 1].cause = prev.hist[prev.index].mark
    /\ prev.library[prev.index].type \in {"Entry", "String", "Preamble"}
    /\ Len(library) > 1

-----------------------------------------------------------------------------
(* The field map of an entry                                               *)

DistinctKeys(fields) ==
    \A i, j \in 1..Len(fields) : i # j => fields[i].key # fields[j].key

\* a step of the entry handler that has read one key = value pair: the map
\* gains one field, under a key no earlier field has, and the earlier fields
\* stay as they were
FieldAdded ==
    (pc \in {"value_start_mark", "closed_bracket", "double_quoted_string"}
        /\ loc.caller = "entry" /\ pc' = "after_field_mark") =>
    /\ Len(loc'.result) = Len(loc.result) + 1
    /\ SubSeq(loc'.result, 1, Len(loc.result)) = loc.result
    /\ loc'.result[Len(loc'.result)].key \notin KeysOf(loc.result)

\* any other step of the entry handler leaves the map alone, and the entry
\* returned has the fields of the map
FieldsKept ==
    /\ (pc \in {"equals_mark", "after_field_mark"}
           /\ pc' \in {"value_start_mark", "equals_mark"}) => loc'.result = loc.result
    /\ (pc \in {"value_start_mark", "closed_bracket", "double_quoted_string"}
           /\ loc.caller = "entry" /\ pc' \in {"closed_bracket", "double_quoted_string"})
          => loc'.result = loc.result
    /\ (pc = "equals_mark" /\ Len(library') = Len(library) + 1
           /\ library'[Len(library')].type # "ParsingFailedBlock")
          => EntryIn(library'[Len(library')]).fields = loc.result

\* C14: the field map of an entry has pairwise distinct keys, while it is
\* built and when it is returned, and one field for each key = value pair
\* read: each pair read appends a field under a key not yet in the map, and no
\* step changes or drops a field stored earlier.
C14_FieldsNeverOverwritten ==
    /\ [](/\ DistinctKeys(loc.result)
          /\ \A i \in 1..Len(library) :
                library[i].type \in {"Entry", "DuplicateFieldKeyBlock"} =>
                    DistinctKeys(EntryIn(library[i]).fields))
    /\ [][FieldAdded /\ FieldsKept]_vars

\* an entry with an authored a_duplicate_1 before the repeated key a and an
\* authored a_duplicate_2 after it: four pairs read, four fields
C14_Witness ==
    \E i \in 1..Len(library) :
        /\ library[i].type = "DuplicateFieldKeyBlock"
        /\ library[i].duplicate_keys = {"a", "a_duplicate_2"}
        /\ KeyValues(library[i].entry.fields)
               = << <<"a", "1">>, <<"a_duplicate_1", "2">>, <<"a_duplicate_2", "3">>,
                    <<"a_duplicate_2_duplicate_1", "4">> >>

-----------------------------------------------------------------------------
(* The pushback slot                                                       *)

\* a step that starts with a token in the slot reads that token and leaves
\* the iterator where it is; a step that ends with a token in the slot has
\* stored the token it read, in the slot its read had emptied
SlotStep ==
    /\ unaccepted_mark # None =>
          /\ NextMark(FALSE).m = unaccepted_mark
          /\ markiter' = markiter
          /\ current_char_index' = unaccepted_mark.start
    /\ unaccepted_mark' # None =>
          /\ NextMark(FALSE).um = None
          /\ unaccepted_mark' = NextMark(FALSE).m

\* C15: the pushback slot holds no token or one; a token is stored only in the
\* slot that the read before the store left empty, the read that follows
\* returns the stored token without drawing from the iterator, and the slot is
\* empty when a handler has returned a parsed block and when split has
\* returned.
C15_PushbackSlot ==
    /\ [](pc = "returned" => unaccepted_mark = None)
    /\ []((pc = "split" /\ unaccepted_mark # None) =>
              /\ Len(library) > 0
              /\ library[Len(library)].type = "ParsingFailedBlock"
              /\ hist[Len(hist)].cause = unaccepted_mark)
    /\ [][SlotStep]_vars

\* the closing bracket that ended a bare value, read a second time and put
\* back a second time, while the library holds a block that was parsed
C15_Witness ==
    /\ pc = "equals_mark"
    /\ unaccepted_mark.group = "}"
    /\ Len(loc.result) >= 1
    /\ loc.result[Len(loc.result)].value = "2"
    /\ \E i \in 1..Len(library) : library[i].type \in {"Entry", "String", "Preamble"}

-----------------------------------------------------------------------------
(* The closing-bracket locator                                             *)

\* offset q holds the character c, not directly preceded by a backslash
UnescapedAt(q, c) == Ch(bibstr, q) = c /\ Ch(bibstr, q - 1) # "\\"

\* the opening bracket the locator was called after
OpeningBracket(l) ==
    IF l.caller = "entry" THEN l.value_start_mark ELSE l.start_bracket_mark

\* the brackets opened less the brackets closed, strictly between o and q
Nesting(o, q) ==
    Cardinality({r \in (o + 1)..(q - 1) : UnescapedAt(r, "{")})
        - Cardinality({r \in (o + 1)..(q - 1) : UnescapedAt(r, "}")})

\* the step in which the locator returns, to the entry handler or to a
\* handler that returns its block at once
LocatorReturns ==
    /\ pc = "closed_bracket"
    /\ \/ pc' = "after_field_mark"
       \/ /\ Len(library') = Len(library) + 1
          /\ library'[Len(library')].type # "ParsingFailedBlock"

\* the index returned is that of the first unescaped } after the opening
\* bracket before which the brackets are balanced, no block start lies
\* between, and the pushback slot is left empty
LocatorResult ==
    LocatorReturns =>
        LET o == OpeningBracket(loc).start
            p == current_char_index'
        IN  /\ UnescapedAt(o, "{")
            /\ o < p
            /\ UnescapedAt(p, "}")
            /\ Nesting(o, p) = 0
            /\ \A q \in (o + 1)..(p - 1) : UnescapedAt(q, "}") => Nesting(o, q) > 0
            /\ \A q \in (o + 1)..(p - 1) : q \notin BlockStartOffsets
            /\ unaccepted_mark' = None
            /\ loc.caller = "entry" =>
                  loc'.result[Len(loc'.result)].value
                      = Strip(Slice(bibstr, loc.equals_mark.end, p + 1))

\* every token the locator reads lies behind the token read before it, and
\* none comes from the pushback slot
LocatorForward ==
    pc = "closed_bracket" =>
        /\ unaccepted_mark = None
        /\ current_char_index' > current_char_index

\* C16: called after an opening bracket, the closing-bracket locator returns
\* the offset of the first unescaped } at which the nesting count is back at
\* zero: the unescaped brackets between the opening bracket and it are
\* balanced, and before no earlier } they are; it reads tokens forward only
\* and returns with the pushback slot empty. While it runs, its counter is the
\* nesting of the brackets read so far.
C16_ClosingBracketLocator ==
    /\ [](pc = "closed_bracket" =>
              /\ unaccepted_mark = None
              /\ loc.num_additional_brackets
                     = Nesting(OpeningBracket(loc).start, current_char_index + 1))
    /\ [][LocatorResult /\ LocatorForward]_vars

\* the locator has returned for a value with a bracket pair and an @ inside
C16_Witness ==
    /\ pc = "after_field_mark"
    /\ Len(loc.result) >= 1
    /\ loc.result[Len(loc.result)].value = "{x@y{z}}"

-----------------------------------------------------------------------------
(* An @ inside a field value                                               *)

\* the entry handler is reading a value that a { or a " opened
ReadingValue ==
    pc \in {"closed_bracket", "double_quoted_string"} /\ loc.caller = "entry"

\* the offsets at which the value opened at o by the character c could be
\* closed: for a {, each unescaped } before which the brackets are balanced;
\* for a ", each unescaped "
Closes(o, c) ==
    {p \in (o + 1)..(Len(bibstr) - 1) :
        IF c = "{" THEN UnescapedAt(p, "}") /\ Nesting(o, p) = 0
        ELSE UnescapedAt(p, "\"")}

\* the offset of the matching close of the value being read, NoIndex if the
\* input has none
ValueClose ==
    LET cs == Closes(loc.value_start_mark.start, loc.value_start_mark.group)
    IN  IF cs = {} THEN NoIndex ELSE CHOOSE p \in cs : \A q \in cs : p <= q

\* the step appends a ParsingFailedBlock
Aborts ==
    /\ Len(library') = Len(library) + 1
    /\ library'[Len(library')].type = "ParsingFailedBlock"

\* an @ is a token only directly after a newline and before word characters
\* and a {: every token that starts with @ is such a block start
AtTokensAreBlockStarts ==
    /\ pc # "idle" =>
          \A i \in 1..Len(markiter) :
              Ch(bibstr, markiter[i].start) = "@" =>
                  markiter[i].start \in BlockStartOffsets
    /\ \A i \in 1..Len(hist) :
          \A k \in {hist[i].mark, hist[i].cause} \ {None} :
              Ch(bibstr, k.start) = "@" => k.start \in BlockStartOffsets

\* C17, as claimed: an @ inside a field value never ends the value: while the
\* entry handler reads a value that has a matching close and holds an @, the
\* token read next is no block start, so the value is read up to its close.
C17_AtInsideValueNeverAborts ==
    /\ AtTokensAreBlockStarts
    /\ (ReadingValue /\ ValueClose # NoIndex
           /\ \E q \in (loc.value_start_mark.start + 1)..(ValueClose - 1) :
                 Ch(bibstr, q) = "@")
          => ~IsBlockStart(NextMark(FALSE).m)

\* a step of the entry handler inside a value that has a matching close: when
\* no block start lies between the opening and the close the step does not
\* abort and the value ends at the close; when one does, the value is never
\* completed and the abort puts the first such block start back
ValueStep ==
    (ReadingValue /\ ValueClose # NoIndex) =>
        LET o == loc.value_start_mark.start
            inside == {q \in BlockStartOffsets : o < q /\ q < ValueClose}
        IN  IF inside = {}
            THEN /\ ~Aborts
                 /\ pc' = "after_field_mark" => current_char_index' = ValueClose
            ELSE /\ pc' # "after_field_mark"
                 /\ Aborts =>
                       /\ unaccepted_mark'.start \in inside
                       /\ \A q \in inside : unaccepted_mark'.start <= q

\* C17, amended: an @ is a token only when it directly follows a newline and
\* is followed by word characters and {, also inside a field value. A value
\* delimited by brackets or quotes that holds no such block start is read up
\* to its matching close; one that holds such a block start aborts the entry
\* at the first of them, which then starts the next block.
C17_OnlyBlockStartEndsValue ==
    /\ []AtTokensAreBlockStarts
    /\ [][ValueStep]_vars

BracedAtEntry == "@a{k,a={\n@y{z}}}"

\* the entry whose bracketed value holds a block start before its matching
\* close has been aborted, and the block start has started the block after it
C17_Witness ==
    /\ pc = "returned"
    /\ \E i \in BlocksOf(BracedAtEntry) :
          /\ library[i].type = "ParsingFailedBlock"
          /\ library[i].raw = "@a{k,a={"
          /\ hist[i + 1].mark = hist[i].cause
          /\ hist[i].cause.group = "@y"

-----------------------------------------------------------------------------
(* Termination                                                             *)

\* the values of pc
Labels ==
    {"idle", "split", "returned", "raised", "explicit_comment", "preamble",
     "string", "string_equals_mark", "entry", "comma_mark", "equals_mark",
     "value_start_mark", "after_field_mark", "closed_bracket",
     "double_quoted_string"}

\* the token of bibstr that starts at offset p, if one does
TokenAt(p) ==
    IF p \in 0..(Len(bibstr) - 1) /\ MatchAt(bibstr, p) # -1
    THEN [start |-> p, end |-> MatchAt(bibstr, p),
          group |-> Slice(bibstr, p, MatchAt(bibstr, p))]
    ELSE None

\* where a step of split is: the position in the code, the offset of the
\* token read last, the pushback slot
at == <<pc, current_char_index, unaccepted_mark>>

\* a call of split that has not returned runs: it is at some position in the
\* code, at some offset, with the slot empty or holding the token read last
Runs ==
    /\ pc # "returned"
    /\ pc' \in Labels
    /\ current_char_index' \in -1..Len(bibstr)
    /\ unaccepted_mark' \in {None, TokenAt(current_char_index')}

\* split is a sequential program: it is run until it returns. (Every step of
\* Next is a step of Runs that changes at, which the termination property
\* below checks with the rest.)
SpecFair == Spec /\ WF_at(Runs)

\* a bound on the reads split has still to make: the tokens left in the
\* iterator, the reads the slot can still serve, the way back to the loop of
\* split and out of it
Rank ==
    6 * (IF pc = "idle" THEN Len(bibstr) ELSE Len(markiter))
    + (IF unaccepted_mark = None THEN 0
       ELSE IF pc = "after_field_mark" THEN 4 ELSE 2)
    + (IF pc = "returned" THEN 0 ELSE IF pc = "split" THEN 1 ELSE 2)

\* every step is a step of the running call, and brings the return nearer
Progress ==
    /\ Runs
    /\ at' # at
    /\ Rank' < Rank

\* what a read returns is a token that is no newline, or the end of file
NoNewlineReturned ==
    /\ unaccepted_mark.group # "\n"
    /\ pc \notin {"idle", "returned"} => NextMark(TRUE).m.group # "\n"

\* the positions at which an iteration of a handler loop starts
LoopHeads == {"closed_bracket", "double_quoted_string", "equals_mark"}

SlotReadsBounded ==
    /\ (unaccepted_mark # None /\ unaccepted_mark' # None) =>
          /\ pc = "after_field_mark" /\ pc' = "equals_mark"
          /\ unaccepted_mark' = unaccepted_mark
          /\ unaccepted_mark.group = "}"
    /\ (unaccepted_mark # None /\ pc = "equals_mark") =>
          /\ unaccepted_mark' = None
          /\ pc' = "split"
          /\ ~Aborts

\* a read with the slot empty draws from the iterator, which never grows and
\* shrinks unless it is exhausted; then the read returns the end of file, at
\* which a handler aborts and split returns; the two locators only ever read
\* with the slot empty
IteratorAdvances ==
    /\ pc # "idle" => Len(markiter') <= Len(markiter)
    /\ (pc # "idle" /\ unaccepted_mark = None) =>
          IF markiter # <<>>
          THEN Len(markiter') < Len(markiter)
          ELSE pc' = IF pc = "split" THEN "returned" ELSE "split"
    /\ pc \in {"closed_bracket", "double_quoted_string"} => unaccepted_mark = None

BareValueEntry == "@A{k,a=1}"

-----------------------------------------------------------------------------
(* Line numbers and newline characters                                     *)

\* the newline characters of the caller's input before offset p
NewlinesBefore(p) == Cardinality({j \in 1..(p - 1) : Ch(bibstr, j) = "\n"})

\* the items reported so far or being reported, each with the offset it is
\* anchored at and its start_line: the blocks of library, the block being
\* handled, and the field stored last, anchored at its =
Items ==
    {[anchor |-> FirstChar(i), line |-> EntryIn(library[i]).start_line] :
        i \in 1..Len(library)}
    \cup (IF pc \in Labels \ {"idle", "split", "returned", "raised"}
          THEN {[anchor |-> m.start, line |-> start_line]} ELSE {})
    \cup (IF pc = "after_field_mark"
          THEN {[anchor |-> loc.equals_mark.start,
                 line |-> loc.result[Len(loc.result)].start_line]}
          ELSE {})

\* C19: the start lines of any two items reported by one call of split differ
\* by the number of newline characters of the input between their anchors,
\* the first character of a block and the = of a field.
C19_LinesCountNewlines ==
    \A a, b \in Items :
        a.line - b.line = NewlinesBefore(a.anchor) - NewlinesBefore(b.anchor)

\* C19 holds of the inputs in which no backslash directly precedes a newline
C19_Unescaped ==
    (\A j \in 1..(Len(bibstr) - 1) :
         Ch(bibstr, j) = "\n" => Ch(bibstr, j - 1) # "\\")
    => C19_LinesCountNewlines

-----------------------------------------------------------------------------
(* split called again on the Splitter it has returned from                 *)

\* split has returned (line 294) and is called a second time, with a new
\* sink: the locals of the call are new, the fields of the Splitter are as
\* the first call left them
split_again ==
    /\ pc = "returned"
    /\ prev = NoRun
    /\ library' = <<>>
    /\ hist' = <<>>
    /\ pc' = "idle"
    /\ m' = None
    /\ start_line' = -1
    /\ loc' = NoLoc
    /\ prev' = Run("again", 0)
    /\ UNCHANGED <<bibstr, markiter, unaccepted_mark, current_line,
                   current_char_index, open_brackets, is_quote_open,
                   expected_next, implicit_comment_start_line,
                   implicit_comment_start>>

NextAgain == Next \/ split_again

SpecAgain == Init /\ [][NextAgain]_vars

\* C20: the second call of split on a Splitter returns the blocks the first
\* call returned: the same variants, content, raw and start lines, in the
\* same order.
C20_SecondSplitSameBlocks ==
    (pc = "returned" /\ prev.kind = "again") => library = prev.library

====
